---- MODULE Spec2Model ----
(***************************************************************************)
(* State machine of the todo application controller (src/src/App.tsx).     *)
(*                                                                         *)
(* The React state of App is the model's state; every handler is split at  *)
(* its await: the part before the await is one action (the request is      *)
(* issued), the continuation after it (then / catch / finally, which run   *)
(* in one microtask) is another.  Between the two the remote API serves    *)
(* the request: the API is a store of todo records that takes each request *)
(* at some instant between its issue and the arrival of its response.      *)
(***************************************************************************)
EXTENDS Integers, Sequences, FiniteSets

VARIABLES
    todos,          \* useState<Todo[]>([])                      App.tsx:16
    statusFilter,   \* useState(TodoStatusFilter.All)            App.tsx:17
    error,          \* useState<string | null>(null)             App.tsx:18
    tempTodo,       \* useState<Todo | null>(null)               App.tsx:19
    inputTitle,     \* useState<string>('')                      App.tsx:20
    isLoadingTodo,  \* useState<number[]>([0])                   App.tsx:21
    timer,          \* seconds left on the pending setTimeout, 0: no timer
    listReq,        \* the getTodos promise of the mount effect
    inflight,       \* the createTodo/deleteTodo/updateTodo promises, in issue order
    server,         \* the records the remote API holds
    nextId,         \* the id the remote API gives to the next created record
    intents,        \* how many user intents the controller has taken
    last,           \* history: the continuation that led to this state
    bulk,           \* history: the bulk toggle that runs alone, and its goal
    batch           \* history: the bulk remove that runs alone

vars == <<todos, statusFilter, error, tempTodo, inputTitle, isLoadingTodo,
          timer, listReq, inflight, server, nextId, intents, last, bulk,
          batch>>

----------------------------------------------------------------------------
(* Bounds of the model *)

\* Records the remote API holds at the start.
MaxInit == 2
\* User intents (clicks, submits, key strokes) in one run.
MaxIntents == 2
\* User intents in one run of the specification that starts on an empty list.
DeepIntents == 3

(* Program constants *)

USER_ID == 10884
\* The auto-dismiss delay, 3000 ms, in seconds.
ERROR_DELAY == 3

Null == "<null>"
Titles == {"a", "b"}
Filters == {"All", "Active", "Completed"}

AddFailed == "Unable to add a todo"
DeleteFailed == "Unable to delete a todo"
UpdateFailed == "Unable to update a todo"
\* errorFromServer.message of a rejected getTodos
ServerMessage == "server message"
\* the text the header hands to onAddError
HeaderMessage == "header message"

----------------------------------------------------------------------------
(* Data *)

Todo(i, t, c) == [id |-> i, userId |-> USER_ID, title |-> t, completed |-> c]

\* Partial<Todo>: the keys present and their values (a value of an absent
\* key is never read).
Props(ks, t, c) == [keys |-> ks, title |-> t, completed |-> c]
OnlyCompleted(c) == Props({"completed"}, "", c)
OnlyTitle(t) == Props({"title"}, t, FALSE)
EditProps == {OnlyCompleted(c) : c \in BOOLEAN} \cup {OnlyTitle(t) : t \in Titles}

NoProps == Props({}, "", FALSE)
NoTodo == Todo(0, "", FALSE)

\* A request in flight.  stage: "sent" (on its way to the API), "ok" / "fail"
\* (served; the response is on its way back).  res: the record createTodo
\* resolves with.
Req(k, i, p, s, r) == [kind |-> k, id |-> i, props |-> p, stage |-> s, res |-> r]

Ids(s) == {s[i].id : i \in DOMAIN s}
Range(s) == {s[i] : i \in DOMAIN s}
RemoveAt(s, i) == SubSeq(s, 1, i - 1) \o SubSeq(s, i + 1, Len(s))

----------------------------------------------------------------------------
(* The pure functions of the state updates *)

\* A variant that puts the created record first
PrependTodo(currentTodos, createdTodo) == <<createdTodo>> \o currentTodos

\* (currentTodos) => [...currentTodos, createdTodo]
AppendTodo(currentTodos, createdTodo) == Append(currentTodos, createdTodo)

\* currentTodos.filter((todo) => todo.id !== todoId)
FilterOutTodo(currentTodos, todoId) ==
    SelectSeq(currentTodos, LAMBDA todo : todo.id # todoId)

\* { ...todo, ...dataToEdit }
\* A variant that flips completed instead of setting it
SpreadFlip(todo, dataToEdit) ==
    [todo EXCEPT
        !.title = IF "title" \in dataToEdit.keys THEN dataToEdit.title ELSE @,
        !.completed = IF "completed" \in dataToEdit.keys THEN ~@ ELSE @]

\* A variant with the spread the other way round: { ...dataToEdit, ...todo }
SpreadUnder(todo, dataToEdit) == todo

Spread(todo, dataToEdit) ==
    [todo EXCEPT
        !.title = IF "title" \in dataToEdit.keys THEN dataToEdit.title ELSE @,
        !.completed = IF "completed" \in dataToEdit.keys
                      THEN dataToEdit.completed ELSE @]

\* A variant that adds a record for an id it does not find
MergeTodoUpsert(currentTodos, todoId, dataToEdit) ==
    IF todoId \in Ids(currentTodos)
    THEN [i \in DOMAIN currentTodos |->
             IF currentTodos[i].id # todoId
             THEN currentTodos[i]
             ELSE Spread(currentTodos[i], dataToEdit)]
    ELSE Append(currentTodos,
                Todo(todoId, dataToEdit.title, dataToEdit.completed))

\* A variant without the test of the id: every record takes the fields
MergeTodoAll(currentTodos, todoId, dataToEdit) ==
    [i \in DOMAIN currentTodos |-> Spread(currentTodos[i], dataToEdit)]

\* currentTodos.map((todo) => todo.id !== todoId ? todo : {...todo, ...dataToEdit})
MergeTodo(currentTodos, todoId, dataToEdit) ==
    [i \in DOMAIN currentTodos |->
        IF currentTodos[i].id # todoId
        THEN currentTodos[i]
        ELSE Spread(currentTodos[i], dataToEdit)]

\* (currentTodoIds) => [...currentTodoIds, todoId]
MarkLoading(currentTodoIds, todoId) == Append(currentTodoIds, todoId)

\* A variant that takes out one entry only: the first one equal to todoId
UnmarkLoadingOnce(currentTodoIds, todoId) ==
    IF \E i \in DOMAIN currentTodoIds : currentTodoIds[i] = todoId
    THEN RemoveAt(currentTodoIds,
                  CHOOSE i \in DOMAIN currentTodoIds :
                      /\ currentTodoIds[i] = todoId
                      /\ \A j \in 1..(i - 1) : currentTodoIds[j] # todoId)
    ELSE currentTodoIds

\* currentTodos.filter((id) => id !== todoId)
UnmarkLoading(currentTodoIds, todoId) ==
    SelectSeq(currentTodoIds, LAMBDA id : id # todoId)

\* getFilteredTodos(todos, statusFilter)
getFilteredTodos(list, status) ==
    CASE status = "Active" -> SelectSeq(list, LAMBDA todo : ~todo.completed)
      [] status = "Completed" -> SelectSeq(list, LAMBDA todo : todo.completed)
      [] OTHER -> list

\* A variant that leaves the status filter out
visibleTodosAll == getFilteredTodos(todos, "All")

visibleTodos == getFilteredTodos(todos, statusFilter)

activeTodosCount == Len(SelectSeq(todos, LAMBDA todo : ~todo.completed))
completedTodosCount == Len(SelectSeq(todos, LAMBDA todo : todo.completed))
isVisibleClearCompleted == completedTodosCount > 0
isVisibleTodoList == Len(todos) > 0
isVisibleToggleAllActive == Len(todos) > 0
isActiveToggleAllActive == completedTodosCount = Len(todos)

\* setError(value) followed by the effect on [error]: a render with a changed
\* error clears the running timer and, when the new error is truthy, starts a
\* new one; setting the value the state already holds renders nothing and
\* leaves the timer alone.
\* A variant whose effect arms no timer
SetErrorNoTimer(value) ==
    /\ error' = value
    /\ timer' = IF value = Null THEN 0 ELSE timer

SetError(value) ==
    /\ error' = value
    /\ timer' = IF value = error THEN timer
                ELSE IF value = Null THEN 0 ELSE ERROR_DELAY

(* History of a run.  last names the continuation (the code after an await)
   whose run produced the state, NoEvent after any other step.  bulk holds
   the goal ("toTrue" / "toFalse") of a bulk toggle invoked with no request
   in flight, until another request is issued or one of its updates fails,
   and how many such toggles have followed one another.  batch holds, for a
   bulk remove invoked with no request in flight and until another request
   is issued, the collection at its invocation and the ids whose deleteTodo
   has resolved since. *)
Event(o, i, k) == [op |-> o, id |-> i, ok |-> k]
NoEvent == Event("none", 0, TRUE)
Bulk(g, n) == [goal |-> g, nth |-> n]
NoBulk == Bulk("none", 0)
Batch(o, a, g) == [on |-> o, at |-> a, gone |-> g]
NoBatch == Batch(FALSE, <<>>, {})

\* A user intent that issues no request
ViewStep ==
    /\ intents < MaxIntents
    /\ intents' = intents + 1
    /\ last' = NoEvent
    /\ UNCHANGED <<bulk, batch>>

\* A user intent that issues requests
UserStep ==
    /\ intents < MaxIntents
    /\ intents' = intents + 1
    /\ last' = NoEvent
    /\ bulk' = NoBulk
    /\ batch' = NoBatch

\* A step of the remote API or of the clock
OtherStep ==
    /\ last' = NoEvent
    /\ UNCHANGED <<intents, bulk, batch>>

\* The continuation of handler o for record i runs, on success (k) or failure
Settled(o, i, k) ==
    /\ last' = Event(o, i, k)
    /\ bulk' = IF k THEN bulk ELSE NoBulk
    /\ batch' = IF batch.on /\ o = "remove" /\ k
                THEN [batch EXCEPT !.gone = @ \cup {i}]
                ELSE batch
    /\ UNCHANGED intents

----------------------------------------------------------------------------
(* The remote API *)

InitialLists ==
    UNION {[1..n -> BOOLEAN] : n \in 0..MaxInit}

ServerList(done) == [i \in DOMAIN done |-> Todo(i, "a", done[i])]

\* The API takes the list request: it answers with the records it holds at
\* that instant, or rejects.
ServeList ==
    /\ OtherStep
    /\ listReq.stage = "sent"
    /\ \/ listReq' = [stage |-> "ok", res |-> server]
       \/ listReq' = [stage |-> "fail", res |-> <<>>]
    /\ server' = <<>>
    /\ UNCHANGED <<todos, statusFilter, error, tempTodo, inputTitle,
                   isLoadingTodo, timer, inflight, nextId>>

\* What serving request r makes of the records the API holds.  Only getTodos
\* reads them, so they are followed until the list request has been served.
Served(r, created) ==
    IF listReq.stage # "sent" THEN <<>>
    ELSE CASE r.kind = "create" -> Append(server, created)
           [] r.kind = "delete" -> FilterOutTodo(server, r.id)
           [] OTHER -> MergeTodo(server, r.id, r.props)

\* The API takes request i: it rejects it and changes nothing, or applies it.
\* A created record gets the next id and the fields of the request body.
Serve(i) ==
    /\ OtherStep
    /\ inflight[i].stage = "sent"
    /\ LET r == inflight[i]
           created == Todo(nextId, r.props.title, r.props.completed)
       IN \/ /\ inflight' = [inflight EXCEPT ![i].stage = "fail"]
             /\ UNCHANGED <<server, nextId>>
          \/ /\ inflight' = [inflight EXCEPT
                    ![i].stage = "ok",
                    ![i].res = IF r.kind = "create" THEN created ELSE NoTodo]
             /\ server' = Served(r, created)
             /\ nextId' = IF r.kind = "create" THEN nextId + 1 ELSE nextId
    /\ UNCHANGED <<todos, statusFilter, error, tempTodo, inputTitle,
                   isLoadingTodo, timer, listReq>>

----------------------------------------------------------------------------
(* Startup: the mount effect *)

\* getTodos(USER_ID).then(setTodos).catch(setError(message))
ListSettled ==
    /\ listReq.stage \in {"ok", "fail"}
    /\ Settled("list", 0, listReq.stage = "ok")
    /\ listReq' = [stage |-> IF listReq.stage = "ok" THEN "loaded" ELSE "failed",
                   res |-> <<>>]
    /\ IF listReq.stage = "ok"
       THEN /\ todos' = listReq.res
            /\ UNCHANGED <<error, timer>>
       ELSE /\ SetError(ServerMessage)
            /\ UNCHANGED todos
    /\ UNCHANGED <<statusFilter, tempTodo, inputTitle, isLoadingTodo,
                   inflight, server, nextId>>

----------------------------------------------------------------------------
(* The error banner *)

\* One second passes on the running timer; at the end of the delay its
\* callback runs setError(null).
Tick ==
    /\ OtherStep
    /\ timer > 0
    /\ IF timer = 1
       THEN SetError(Null)
       ELSE /\ timer' = timer - 1
            /\ UNCHANGED error
    /\ UNCHANGED <<todos, statusFilter, tempTodo, inputTitle, isLoadingTodo,
                   listReq, inflight, server, nextId>>

addError(errorText) ==
    /\ ViewStep
    /\ SetError(errorText)
    /\ UNCHANGED <<todos, statusFilter, tempTodo, inputTitle, isLoadingTodo,
                   listReq, inflight, server, nextId>>

closeError ==
    /\ ViewStep
    /\ error # Null
    /\ SetError(Null)
    /\ UNCHANGED <<todos, statusFilter, tempTodo, inputTitle, isLoadingTodo,
                   listReq, inflight, server, nextId>>

----------------------------------------------------------------------------
(* The filter bar and the input field *)

selectStatusFilter(status) ==
    /\ ViewStep
    /\ isVisibleTodoList
    /\ status # statusFilter
    /\ statusFilter' = status
    /\ UNCHANGED <<todos, error, tempTodo, inputTitle, isLoadingTodo, timer,
                   listReq, inflight, server, nextId>>

onInputTodoTitle(todoTitle) ==
    /\ ViewStep
    /\ todoTitle # inputTitle
    /\ inputTitle' = todoTitle
    /\ UNCHANGED <<todos, statusFilter, error, tempTodo, isLoadingTodo, timer,
                   listReq, inflight, server, nextId>>

----------------------------------------------------------------------------
(* Add *)

\* addTodo up to its await: the placeholder is shown and createTodo is called.
addTodo(todoTitle) ==
    /\ UserStep
    /\ tempTodo' = <<Todo(0, todoTitle, FALSE)>>
    /\ inflight' = Append(inflight,
           Req("create", 0, Props({"userId", "title", "completed"}, todoTitle, FALSE),
               "sent", NoTodo))
    /\ UNCHANGED <<todos, statusFilter, error, inputTitle, isLoadingTodo, timer,
                   listReq, server, nextId>>

\* A variant with the two resets at the end of the try block, not in finally
addTodoSettledNoFinally(i) ==
    /\ inflight[i].kind = "create"
    /\ inflight[i].stage \in {"ok", "fail"}
    /\ Settled("add", inflight[i].res.id, inflight[i].stage = "ok")
    /\ IF inflight[i].stage = "ok"
       THEN /\ todos' = AppendTodo(todos, inflight[i].res)
            /\ tempTodo' = <<>>
            /\ inputTitle' = ""
            /\ UNCHANGED <<error, timer>>
       ELSE /\ SetError(AddFailed)
            /\ UNCHANGED <<todos, tempTodo, inputTitle>>
    /\ inflight' = RemoveAt(inflight, i)
    /\ UNCHANGED <<statusFilter, isLoadingTodo, listReq, server, nextId>>

\* addTodo after its await: then / catch, and the finally block.
addTodoSettled(i) ==
    /\ inflight[i].kind = "create"
    /\ inflight[i].stage \in {"ok", "fail"}
    /\ Settled("add", inflight[i].res.id, inflight[i].stage = "ok")
    /\ IF inflight[i].stage = "ok"
       THEN /\ todos' = AppendTodo(todos, inflight[i].res)
            /\ UNCHANGED <<error, timer>>
       ELSE /\ SetError(AddFailed)
            /\ UNCHANGED todos
    /\ tempTodo' = <<>>
    /\ inputTitle' = ""
    /\ inflight' = RemoveAt(inflight, i)
    /\ UNCHANGED <<statusFilter, isLoadingTodo, listReq, server, nextId>>

----------------------------------------------------------------------------
(* Remove *)

DeleteReq(todoId) == Req("delete", todoId, NoProps, "sent", NoTodo)

\* removeTodo up to its await
removeTodo(todoId) ==
    /\ UserStep
    /\ isLoadingTodo' = MarkLoading(isLoadingTodo, todoId)
    /\ inflight' = Append(inflight, DeleteReq(todoId))
    /\ UNCHANGED <<todos, statusFilter, error, tempTodo, inputTitle, timer,
                   listReq, server, nextId>>

\* A variant that takes the record out whatever deleteTodo answered
removeTodoSettledAlways(i) ==
    /\ inflight[i].kind = "delete"
    /\ inflight[i].stage \in {"ok", "fail"}
    /\ Settled("remove", inflight[i].id, inflight[i].stage = "ok")
    /\ todos' = FilterOutTodo(todos, inflight[i].id)
    /\ IF inflight[i].stage = "ok"
       THEN UNCHANGED <<error, timer>>
       ELSE SetError(DeleteFailed)
    /\ isLoadingTodo' = UnmarkLoading(isLoadingTodo, inflight[i].id)
    /\ inflight' = RemoveAt(inflight, i)
    /\ UNCHANGED <<statusFilter, tempTodo, inputTitle, listReq, server, nextId>>

\* removeTodo after its await
removeTodoSettled(i) ==
    /\ inflight[i].kind = "delete"
    /\ inflight[i].stage \in {"ok", "fail"}
    /\ Settled("remove", inflight[i].id, inflight[i].stage = "ok")
    /\ IF inflight[i].stage = "ok"
       THEN /\ todos' = FilterOutTodo(todos, inflight[i].id)
            /\ UNCHANGED <<error, timer>>
       ELSE /\ SetError(DeleteFailed)
            /\ UNCHANGED todos
    /\ isLoadingTodo' = UnmarkLoading(isLoadingTodo, inflight[i].id)
    /\ inflight' = RemoveAt(inflight, i)
    /\ UNCHANGED <<statusFilter, tempTodo, inputTitle, listReq, server, nextId>>

----------------------------------------------------------------------------
(* Edit *)

UpdateReq(todoId, properties) == Req("update", todoId, properties, "sent", NoTodo)

\* editTodo up to its await
editTodo(todoId, properties) ==
    /\ UserStep
    /\ isLoadingTodo' = MarkLoading(isLoadingTodo, todoId)
    /\ inflight' = Append(inflight, UpdateReq(todoId, properties))
    /\ UNCHANGED <<todos, statusFilter, error, tempTodo, inputTitle, timer,
                   listReq, server, nextId>>

\* A variant that merges the fields whatever updateTodo answered
editTodoSettledAlways(i) ==
    /\ inflight[i].kind = "update"
    /\ inflight[i].stage \in {"ok", "fail"}
    /\ Settled("edit", inflight[i].id, inflight[i].stage = "ok")
    /\ todos' = MergeTodo(todos, inflight[i].id, inflight[i].props)
    /\ IF inflight[i].stage = "ok"
       THEN UNCHANGED <<error, timer>>
       ELSE SetError(UpdateFailed)
    /\ isLoadingTodo' = UnmarkLoading(isLoadingTodo, inflight[i].id)
    /\ inflight' = RemoveAt(inflight, i)
    /\ UNCHANGED <<statusFilter, tempTodo, inputTitle, listReq, server, nextId>>

\* editTodo after its await
editTodoSettled(i) ==
    /\ inflight[i].kind = "update"
    /\ inflight[i].stage \in {"ok", "fail"}
    /\ Settled("edit", inflight[i].id, inflight[i].stage = "ok")
    /\ IF inflight[i].stage = "ok"
       THEN /\ todos' = MergeTodo(todos, inflight[i].id, inflight[i].props)
            /\ UNCHANGED <<error, timer>>
       ELSE /\ SetError(UpdateFailed)
            /\ UNCHANGED todos
    /\ isLoadingTodo' = UnmarkLoading(isLoadingTodo, inflight[i].id)
    /\ inflight' = RemoveAt(inflight, i)
    /\ UNCHANGED <<statusFilter, tempTodo, inputTitle, listReq, server, nextId>>

----------------------------------------------------------------------------
(* The bulk operations *)

\* The ids todos.forEach hands to removeTodo, in order
CompletedIds == [i \in DOMAIN SelectSeq(todos, LAMBDA todo : todo.completed) |->
                    SelectSeq(todos, LAMBDA todo : todo.completed)[i].id]

DeleteReqs(ids) == [i \in DOMAIN ids |-> DeleteReq(ids[i])]

removeAllCompletedTodos ==
    /\ isVisibleClearCompleted
    /\ intents < MaxIntents
    /\ intents' = intents + 1
    /\ last' = NoEvent
    /\ bulk' = NoBulk
    /\ batch' = IF inflight = <<>> /\ listReq.stage \in {"loaded", "failed"}
                THEN Batch(TRUE, todos, {})
                ELSE NoBatch
    /\ isLoadingTodo' = isLoadingTodo \o CompletedIds
    /\ inflight' = inflight \o DeleteReqs(CompletedIds)
    /\ UNCHANGED <<todos, statusFilter, error, tempTodo, inputTitle, timer,
                   listReq, server, nextId>>

\* A variant with some in the place of every
areSomeCompleted == \E i \in DOMAIN todos : todos[i].completed

\* todos.every((todo) => todo.completed)
areAllCompleted == \A i \in DOMAIN todos : todos[i].completed

\* A variant without the test of completed in the else branch
ToggledTodosEvery == todos

\* The records todos.forEach hands to editTodo, in order
ToggledTodos ==
    IF areAllCompleted THEN todos
    ELSE SelectSeq(todos, LAMBDA todo : ~todo.completed)

ToggleReqs ==
    [i \in DOMAIN ToggledTodos |->
        UpdateReq(ToggledTodos[i].id, OnlyCompleted(~areAllCompleted))]

handleToggleCompletedToActive ==
    /\ isVisibleToggleAllActive
    /\ intents < MaxIntents
    /\ intents' = intents + 1
    /\ last' = NoEvent
    /\ bulk' = IF inflight = <<>> /\ listReq.stage \in {"loaded", "failed"}
               THEN Bulk(IF \A k \in DOMAIN todos : todos[k].completed
                         THEN "toFalse" ELSE "toTrue",
                         bulk.nth + 1)
               ELSE NoBulk
    /\ batch' = NoBatch
    /\ isLoadingTodo' = isLoadingTodo \o [i \in DOMAIN ToggledTodos |-> ToggledTodos[i].id]
    /\ inflight' = inflight \o ToggleReqs
    /\ UNCHANGED <<todos, statusFilter, error, tempTodo, inputTitle, timer,
                   listReq, server, nextId>>

----------------------------------------------------------------------------
(* The specification *)

Init ==
    /\ todos = <<>>
    /\ statusFilter = "All"
    /\ error = Null
    /\ tempTodo = <<>>
    /\ inputTitle = ""
    /\ isLoadingTodo = <<0>>
    /\ timer = 0
    /\ listReq = [stage |-> "sent", res |-> <<>>]
    /\ inflight = <<>>
    /\ intents = 0
    /\ last = NoEvent
    /\ bulk = NoBulk
    /\ batch = NoBatch
    /\ \E done \in InitialLists :
          /\ server = ServerList(done)
          /\ nextId = Len(done) + 1

Next ==
    \/ ServeList
    \/ ListSettled
    \/ \E i \in DOMAIN inflight : Serve(i)
    \/ Tick
    \/ addError(HeaderMessage)
    \/ closeError
    \/ \E status \in Filters : selectStatusFilter(status)
    \/ \E todoTitle \in Titles : onInputTodoTitle(todoTitle)
    \/ \E todoTitle \in Titles : addTodo(todoTitle)
    \/ \E i \in DOMAIN inflight : addTodoSettled(i)
    \/ \E todoId \in Ids(visibleTodos) : removeTodo(todoId)
    \/ \E i \in DOMAIN inflight : removeTodoSettled(i)
    \/ \E todoId \in Ids(visibleTodos), properties \in EditProps :
          editTodo(todoId, properties)
    \/ \E i \in DOMAIN inflight : editTodoSettled(i)
    \/ removeAllCompletedTodos
    \/ handleToggleCompletedToActive

Spec == Init /\ [][Next]_vars

\* The timer of the error effect fires when its delay has passed
TimerFairSpec == Spec /\ WF_vars(Tick)

\* The program started on an empty list, with DeepIntents user requests
DeepInit ==
    /\ todos = <<>>
    /\ statusFilter = "All"
    /\ error = Null
    /\ tempTodo = <<>>
    /\ inputTitle = ""
    /\ isLoadingTodo = <<0>>
    /\ timer = 0
    /\ listReq = [stage |-> "sent", res |-> <<>>]
    /\ inflight = <<>>
    /\ server = <<>>
    /\ nextId = 1
    /\ intents = MaxIntents - DeepIntents
    /\ last = NoEvent
    /\ bulk = NoBulk
    /\ batch = NoBatch

DeepSpec == DeepInit /\ [][Next]_vars

----------------------------------------------------------------------------
(* Properties *)

Pending == Range(isLoadingTodo)

\* The requests of removeTodo / editTodo calls that have not settled
InFlightOn(todoId) ==
    {i \in DOMAIN inflight :
        inflight[i].kind \in {"delete", "update"} /\ inflight[i].id = todoId}

\* C1: in the state right after the continuation of a Remove or an Edit has
\* run, on success or on failure, the id it acted on is not in the pending
\* list.
C1_SettledIdNotPending ==
    [][\A i \in DOMAIN inflight :
          (removeTodoSettled(i) \/ editTodoSettled(i))
              => inflight[i].id \notin Range(isLoadingTodo')]_vars

\* C1, the case reached: a Remove has just failed and an Edit has just
\* succeeded on a record that is still listed, and the id is not pending.
C1_Witness ==
    /\ last.op \in {"remove", "edit"}
    /\ last.id \in Ids(todos)
    /\ last.id \notin Pending
    /\ (last.op = "remove") = ~last.ok

\* C2: a persisted id is in the pending list exactly when a Remove or an Edit
\* on it is still in flight, so no settlement takes away the membership that
\* belongs to another request in flight.
C2_PendingIffInFlight ==
    \A todoId \in (Ids(todos) \cup Pending \cup Ids(inflight)) \ {0} :
        todoId \in Pending <=> InFlightOn(todoId) # {}

----------------------------------------------------------------------------
(* Order of the responses *)

\* What the continuation of request r makes of the collection cur
ThenTodos(r, cur) ==
    IF r.stage # "ok" THEN cur
    ELSE CASE r.kind = "create" -> AppendTodo(cur, r.res)
           [] r.kind = "delete" -> FilterOutTodo(cur, r.id)
           [] OTHER -> MergeTodo(cur, r.id, r.props)

Perms(n) == {f \in [1..n -> 1..n] : \A i, j \in 1..n : i # j => f[i] # f[j]}

\* The collection once the requests in flight have settled in the given order
RECURSIVE SettleInOrder(_, _, _)
SettleInOrder(order, k, cur) ==
    IF k > Len(order) THEN cur
    ELSE SettleInOrder(order, k + 1, ThenTodos(inflight[order[k]], cur))

AllServed == \A i \in DOMAIN inflight : inflight[i].stage # "sent"

\* The record a request acts on: the created one, or the one named by its id
HasTarget(r) == r.kind # "create" \/ r.stage = "ok"
Target(r) == IF r.kind = "create" THEN r.res.id ELSE r.id

DifferentTargets ==
    \A i, j \in DOMAIN inflight :
        (i # j /\ HasTarget(inflight[i]) /\ HasTarget(inflight[j]))
            => Target(inflight[i]) # Target(inflight[j])

Succeeded(kind) ==
    {inflight[i] : i \in {j \in DOMAIN inflight :
                            inflight[j].kind = kind /\ inflight[j].stage = "ok"}}

\* The records of the collection that no successful delete names, each with
\* the fields of the successful update that names it
ExpectedKept ==
    LET kept == SelectSeq(todos,
                    LAMBDA todo : \A r \in Succeeded("delete") : r.id # todo.id)
    IN [k \in DOMAIN kept |->
           IF \E r \in Succeeded("update") : r.id = kept[k].id
           THEN LET r == CHOOSE r \in Succeeded("update") : r.id = kept[k].id
                IN [kept[k] EXCEPT
                      !.title = IF "title" \in r.props.keys
                                THEN r.props.title ELSE @,
                      !.completed = IF "completed" \in r.props.keys
                                    THEN r.props.completed ELSE @]
           ELSE kept[k]]

ExpectedCreated == {r.res : r \in Succeeded("create")}

AsExpected(final) ==
    /\ Len(final) = Len(ExpectedKept) + Cardinality(ExpectedCreated)
    /\ SubSeq(final, 1, Len(ExpectedKept)) = ExpectedKept
    /\ Range(SubSeq(final, Len(ExpectedKept) + 1, Len(final))) = ExpectedCreated

AnySettled(i) == addTodoSettled(i) \/ removeTodoSettled(i) \/ editTodoSettled(i)

\* C3: when the requests in flight act on pairwise different records, then in
\* whatever order their responses resolve the collection ends as the same one:
\* the records no successful delete named, in their order, with the fields of
\* the successful updates merged, followed by the created records in some
\* order.  Each settlement changes the collection as ThenTodos says.
C3_OrderIndependent ==
    /\ [](AllServed /\ DifferentTargets
            => \A order \in Perms(Len(inflight)) :
                   AsExpected(SettleInOrder(order, 1, todos)))
    /\ [][\A i \in DOMAIN inflight :
             AnySettled(i) => todos' = ThenTodos(inflight[i], todos)]_vars

\* C3, the case reached: an Add and two Edits on different records are in
\* flight, all answered, and one of them has been rejected.
C3_Witness ==
    /\ Len(inflight) >= 3
    /\ AllServed
    /\ DifferentTargets
    /\ Succeeded("create") # {}
    /\ \E r \in Succeeded("update") :
          \E k \in DOMAIN todos :
             todos[k].id = r.id /\ todos[k].completed # r.props.completed
    /\ \E i \in DOMAIN inflight : inflight[i].stage = "fail"

----------------------------------------------------------------------------
(* The collection and the placeholder *)

\* C4: no two records of the collection share an id, and no record of the
\* collection has the placeholder's id 0.
C4_UniqueIdsNoPlaceholder ==
    /\ \A i, j \in DOMAIN todos : i # j => todos[i].id # todos[j].id
    /\ 0 \notin Ids(todos)

\* C5: when createTodo has resolved, the continuation of addTodo leaves the
\* collection as it was, followed by one more record: the one the API
\* returned, with an id above 0, the title given to addTodo, completed false
\* and the fixed user id.
C5_AddAppendsLast ==
    [][\A i \in DOMAIN inflight :
          (addTodoSettled(i) /\ inflight[i].stage = "ok")
              => /\ Len(todos') = Len(todos) + 1
                 /\ SubSeq(todos', 1, Len(todos)) = todos
                 /\ todos'[Len(todos')] = inflight[i].res
                 /\ inflight[i].res.id > 0
                 /\ inflight[i].res =
                        [id |-> inflight[i].res.id, userId |-> USER_ID,
                         title |-> inflight[i].props.title, completed |-> FALSE]]_vars

\* C5, the case reached: the list was loaded empty and an Add has just
\* succeeded, leaving exactly one record.
C5_Witness ==
    /\ listReq.stage = "loaded"
    /\ last.op = "add" /\ last.ok
    /\ Len(todos) = 1
    /\ todos[1].id = last.id
    /\ ~todos[1].completed

\* C5, a second case reached: an Add has just succeeded on a collection that
\* held records already.
C5_WitnessNonEmpty ==
    /\ last.op = "add" /\ last.ok
    /\ Len(todos) > 1
    /\ todos[Len(todos)].id = last.id

\* C6: the continuation of addTodo, after a resolved or a rejected
\* createTodo, leaves the placeholder slot empty and the input title empty;
\* after a rejected one it leaves the collection as it was and the error is
\* "Unable to add a todo".
C6_AddSettles ==
    [][\A i \in DOMAIN inflight :
          addTodoSettled(i)
              => /\ tempTodo' = <<>>
                 /\ inputTitle' = ""
                 /\ (inflight[i].stage = "fail"
                        => todos' = todos /\ error' = AddFailed)]_vars

\* C6, the case reached: an Add has just failed.
C6_Witness ==
    /\ last.op = "add" /\ ~last.ok
    /\ tempTodo = <<>>
    /\ inputTitle = ""
    /\ error = AddFailed

CreatesInFlight == {i \in DOMAIN inflight : inflight[i].kind = "create"}

\* C7: in every state in which a createTodo request is in flight, the
\* placeholder slot holds a record with id 0, completed false and the title
\* of a creation in flight.
C7_PlaceholderWhileCreating ==
    CreatesInFlight # {}
        => /\ tempTodo # <<>>
           /\ \E i \in CreatesInFlight :
                 tempTodo[1] = Todo(0, inflight[i].props.title, FALSE)

----------------------------------------------------------------------------
(* Failures *)

\* C8: the continuation of removeTodo after a rejected deleteTodo leaves the
\* whole collection as it was, sets the error to "Unable to delete a todo"
\* and leaves the id out of the pending list.
C8_DeleteFailureKeepsRecord ==
    [][\A i \in DOMAIN inflight :
          (removeTodoSettled(i) /\ inflight[i].stage = "fail")
              => /\ todos' = todos
                 /\ error' = DeleteFailed
                 /\ inflight[i].id \notin Range(isLoadingTodo')]_vars

\* C8, the case reached: a Remove of a listed record has just failed.
C8_Witness ==
    /\ last.op = "remove" /\ ~last.ok
    /\ last.id \in Ids(todos)
    /\ error = DeleteFailed
    /\ last.id \notin Pending

\* C9: the continuation of editTodo after a rejected updateTodo leaves every
\* record as it was, sets the error to "Unable to update a todo" and leaves
\* the id out of the pending list.
C9_UpdateFailureKeepsFields ==
    [][\A i \in DOMAIN inflight :
          (editTodoSettled(i) /\ inflight[i].stage = "fail")
              => /\ todos' = todos
                 /\ error' = UpdateFailed
                 /\ inflight[i].id \notin Range(isLoadingTodo')]_vars

\* C9, the case reached: an Edit of a listed record has just failed, and the
\* record still has the fields the list was loaded with.
C9_Witness ==
    /\ last.op = "edit" /\ ~last.ok
    /\ \E k \in DOMAIN todos :
          todos[k].id = last.id /\ todos[k].title = "a"
    /\ intents = 1
    /\ error = UpdateFailed
    /\ last.id \notin Pending

----------------------------------------------------------------------------
(* Bulk toggle *)

\* C10: a bulk toggle invoked with no request in flight, whose updates all
\* succeed and beside which no request is issued: once its updates have
\* settled, every record is not completed if every record was completed at
\* the invocation, and every record is completed otherwise.
C10_BulkToggle ==
    (bulk.goal # "none" /\ inflight = <<>>)
        => \A k \in DOMAIN todos : todos[k].completed = (bulk.goal = "toTrue")

\* C10, the case reached: two records; a first bulk toggle has completed
\* both, and the updates of a second one, invoked after the first had
\* settled, have just left both not completed.
C10_Witness ==
    /\ bulk = Bulk("toFalse", 2)
    /\ inflight = <<>>
    /\ last.op = "edit" /\ last.ok
    /\ Len(todos) = 2
    /\ \A k \in DOMAIN todos : ~todos[k].completed

\* C10, the first half reached: one record completed and one not, a bulk
\* toggle is running and its one update is in flight.
C10_WitnessFirst ==
    /\ bulk = Bulk("toTrue", 1)
    /\ Len(inflight) = 1
    /\ Len(todos) = 2
    /\ \E k \in DOMAIN todos : todos[k].completed

----------------------------------------------------------------------------
(* Bulk remove *)

\* The ids of the completed records of a collection, in its order
CompletedOf(list) ==
    LET done == SelectSeq(list, LAMBDA todo : todo.completed)
    IN [k \in DOMAIN done |-> done[k].id]

\* C11: a bulk remove issues one deleteTodo for each record that is completed
\* at the invocation, in order, and none for an active record.  When it runs
\* alone, then once nothing is in flight the collection holds, in their
\* original order, the records that were active at the invocation and the
\* completed ones whose delete did not succeed, and no id of the batch is in
\* the pending list.
C11_BulkRemove ==
    /\ [][removeAllCompletedTodos
            => /\ Len(inflight') = Len(inflight) + Len(CompletedOf(todos))
               /\ \A k \in DOMAIN CompletedOf(todos) :
                     /\ inflight'[Len(inflight) + k].kind = "delete"
                     /\ inflight'[Len(inflight) + k].id = CompletedOf(todos)[k]
               /\ SubSeq(inflight', 1, Len(inflight)) = inflight
               /\ isLoadingTodo' = isLoadingTodo \o CompletedOf(todos)
               /\ todos' = todos]_vars
    /\ []((batch.on /\ inflight = <<>>)
            => /\ todos = SelectSeq(batch.at,
                     LAMBDA todo : ~todo.completed \/ todo.id \notin batch.gone)
               /\ \A k \in DOMAIN batch.at : batch.at[k].id \notin Pending)

----------------------------------------------------------------------------
(* Edits of one record *)

\* The record todo carries every field that properties names
Carries(todo, properties) ==
    /\ "title" \in properties.keys => todo.title = properties.title
    /\ "completed" \in properties.keys => todo.completed = properties.completed

\* Two resolved updates in flight on one record that set a common field
Rivals(i, j) ==
    /\ i # j
    /\ inflight[i].kind = "update" /\ inflight[j].kind = "update"
    /\ inflight[i].stage = "ok" /\ inflight[j].stage = "ok"
    /\ inflight[i].id = inflight[j].id
    /\ inflight[i].props.keys = inflight[j].props.keys

\* C12: of two updates of the same field of the same record that are in
\* flight together and both resolve, the one whose response settles last
\* gives the record its value, whichever was issued first: the continuation
\* of a resolved update leaves every record of its id with its fields, and
\* settling i and then j leaves the fields of j.
C12_LastResponseWins ==
    /\ [][\A i \in DOMAIN inflight :
             (editTodoSettled(i) /\ inflight[i].stage = "ok")
                 => \A k \in DOMAIN todos' :
                       todos'[k].id = inflight[i].id
                           => Carries(todos'[k], inflight[i].props)]_vars
    /\ [](\A i, j \in DOMAIN inflight :
             Rivals(i, j)
                 => LET final == ThenTodos(inflight[j],
                                           ThenTodos(inflight[i], todos))
                    IN \A k \in DOMAIN final :
                          final[k].id = inflight[j].id
                              => Carries(final[k], inflight[j].props))

\* C12, the case reached: an update of a record has just settled and left its
\* value, while a resolved update of the same field with another value is
\* still in flight, its response due last.
C12_Witness ==
    /\ last.op = "edit" /\ last.ok
    /\ Len(inflight) = 1
    /\ inflight[1].kind = "update" /\ inflight[1].stage = "ok"
    /\ inflight[1].id = last.id
    /\ inflight[1].props.keys = {"completed"}
    /\ \E k \in DOMAIN todos :
          /\ todos[k].id = last.id
          /\ todos[k].completed # inflight[1].props.completed
    /\ intents = 2

----------------------------------------------------------------------------
(* The error message and its timer *)

\* A step in which the program sets an error message
ErrorIsSet ==
    \/ addError(HeaderMessage)
    \/ ListSettled /\ listReq.stage = "fail"
    \/ \E i \in DOMAIN inflight : AnySettled(i) /\ inflight[i].stage = "fail"

\* C13: every error set, also one with the text of the error on display,
\* leaves a timer with the full delay ahead, and a dismissal leaves no message
\* and no timer.
C13_EveryErrorRestartsTimer ==
    [][/\ ErrorIsSet => (error' # Null /\ timer' = ERROR_DELAY)
       /\ closeError => (error' = Null /\ timer' = 0)]_vars

\* C14: under fairness of the timer, an error on display always has a timer
\* running and is eventually cleared, with or without a dismissal.
C14_ErrorEventuallyCleared ==
    /\ [](error # Null => timer \in 1..ERROR_DELAY)
    /\ (error # Null) ~> (error = Null)

\* C14, the case reached: the list request was rejected, its message was set,
\* the user did nothing, and the message is gone: the timer cleared it.
C14_Witness ==
    /\ listReq.stage = "failed"
    /\ intents = 0
    /\ error = Null
    /\ timer = 0

\* C15: merging the same completed flag into the same record twice gives the
\* collection that merging it once gives, for every reachable collection, id
\* and flag; and the continuation of a resolved update of completed that finds
\* its value already in the records of its id leaves the collection as it is.
C15_EditIdempotent ==
    /\ [](\A todoId \in Ids(todos), c \in BOOLEAN :
             MergeTodo(MergeTodo(todos, todoId, OnlyCompleted(c)),
                       todoId, OnlyCompleted(c))
                 = MergeTodo(todos, todoId, OnlyCompleted(c)))
    /\ [][\A i \in DOMAIN inflight :
             (/\ editTodoSettled(i)
              /\ inflight[i].stage = "ok"
              /\ inflight[i].props.keys = {"completed"}
              /\ \A k \in DOMAIN todos :
                    todos[k].id = inflight[i].id
                        => Carries(todos[k], inflight[i].props))
                 => todos' = todos]_vars

\* C15, the case reached: two updates were issued for a record; one has just
\* settled, and the other, resolved and still in flight, sets completed to the
\* value the record has now.
C15_Witness ==
    /\ intents = 2
    /\ last.op = "edit" /\ last.ok
    /\ Len(inflight) = 1
    /\ inflight[1].kind = "update" /\ inflight[1].stage = "ok"
    /\ inflight[1].id = last.id
    /\ inflight[1].props.keys = {"completed"}
    /\ \E k \in DOMAIN todos :
          /\ todos[k].id = last.id
          /\ todos[k].completed = inflight[1].props.completed

----------------------------------------------------------------------------
(* The visible list *)

\* The records of list whose completed is want, in the order of list
RECURSIVE WithCompleted(_, _)
WithCompleted(list, want) ==
    IF list = <<>> THEN <<>>
    ELSE (IF Head(list).completed = want THEN <<Head(list)>> ELSE <<>>)
             \o WithCompleted(Tail(list), want)

Shown(list, status) ==
    CASE status = "All" -> list
      [] status = "Active" -> WithCompleted(list, FALSE)
      [] status = "Completed" -> WithCompleted(list, TRUE)

\* C16: the visible list is the whole collection for All, its records with
\* completed false for Active and its records with completed true for
\* Completed, in the order of the collection; selecting a status filter sets
\* the filter and leaves the collection as it is.
C16_VisibleList ==
    /\ [](/\ visibleTodos = Shown(todos, statusFilter)
          /\ \A status \in Filters :
                getFilteredTodos(todos, status) = Shown(todos, status))
    /\ [][\A status \in Filters :
             selectStatusFilter(status)
                 => todos' = todos /\ statusFilter' = status]_vars

\* C16, the case reached: the filter Completed has been selected on a
\* collection of an active and a completed record, and one record is visible.
C16_Witness ==
    /\ statusFilter = "Completed"
    /\ Len(todos) = 2
    /\ ~todos[1].completed /\ todos[2].completed
    /\ visibleTodos = <<todos[2]>>

----------------------------------------------------------------------------
(* Bulk toggle: what it leaves alone *)

\* The ids of the records of list that are not completed, in its order
ActiveOf(list) ==
    LET open == SelectSeq(list, LAMBDA todo : ~todo.completed)
    IN [k \in DOMAIN open |-> open[k].id]

\* C17: a bulk toggle invoked while some record is not completed issues one
\* update {completed: true} for each record that is not completed, in order,
\* and nothing else: it puts exactly those ids in the pending list, issues no
\* request for a completed record and changes no field of any record.  On an
\* empty collection the toggle has nothing to issue.
C17_ToggleLeavesCompleted ==
    /\ [][(handleToggleCompletedToActive /\ ActiveOf(todos) # <<>>)
            => /\ Len(inflight') = Len(inflight) + Len(ActiveOf(todos))
               /\ SubSeq(inflight', 1, Len(inflight)) = inflight
               /\ \A k \in DOMAIN ActiveOf(todos) :
                     /\ inflight'[Len(inflight) + k].kind = "update"
                     /\ inflight'[Len(inflight) + k].id = ActiveOf(todos)[k]
                     /\ inflight'[Len(inflight) + k].props = OnlyCompleted(TRUE)
               /\ isLoadingTodo' = isLoadingTodo \o ActiveOf(todos)
               /\ todos' = todos]_vars
    /\ [](todos = <<>> => ToggleReqs = <<>>)

\* C17, the case reached: a bulk toggle has been invoked, alone, on a
\* completed and a not completed record: one update is on its way, for the
\* second, and the id of the first is not pending.
C17_Witness ==
    /\ bulk = Bulk("toTrue", 1)
    /\ last = NoEvent
    /\ Len(todos) = 2
    /\ todos[1].completed /\ ~todos[2].completed
    /\ Len(inflight) = 1
    /\ inflight[1].id = todos[2].id /\ inflight[1].stage = "sent"
    /\ isLoadingTodo = <<0, todos[2].id>>

----------------------------------------------------------------------------
(* Records an Add appended *)

\* Until the response of getTodos has settled, the collection holds only
\* records that the continuation of a resolved createTodo appended.
AppendedByAdd ==
    IF listReq.stage \in {"sent", "ok", "fail"} THEN Ids(todos) ELSE {}

RemoveSucceeds(todoId) ==
    \E i \in DOMAIN inflight :
        /\ removeTodoSettled(i)
        /\ inflight[i].stage = "ok"
        /\ inflight[i].id = todoId

\* C18: a record that an Add appended is in the collection after every step
\* that is not the continuation of a resolved deleteTodo of its id.
C18_AddedRecordStays ==
    [][\A todoId \in AppendedByAdd :
          ~RemoveSucceeds(todoId) => todoId \in Ids(todos')]_vars

----------------------------------------------------------------------------
(* Edit: what it leaves alone *)

\* C19: the continuation of editTodo, on success or failure, leaves the
\* sequence of ids of the collection as it is and changes no record with
\* another id; when no record has its id (a Remove of it has succeeded in the
\* meantime) it leaves the whole collection as it is.
C19_EditFrame ==
    [][\A i \in DOMAIN inflight :
          editTodoSettled(i)
              => /\ Len(todos') = Len(todos)
                 /\ \A k \in DOMAIN todos :
                       /\ todos'[k].id = todos[k].id
                       /\ todos[k].id # inflight[i].id => todos'[k] = todos[k]
                 /\ inflight[i].id \notin Ids(todos) => todos' = todos]_vars

\* C19, the case reached: an Edit and a Remove of one record were in flight;
\* the delete resolved and settled first, then the resolved update settled:
\* its record is not in the collection, another one is.
C19_Witness ==
    /\ last.op = "edit" /\ last.ok
    /\ last.id \notin Ids(todos)
    /\ intents = 2
    /\ inflight = <<>>
    /\ Len(todos) = 1
    /\ todos[1].id > last.id

----------------------------------------------------------------------------
(* Quiescence *)

\* Every request gets a response: the API serves it and the promise settles
FairSpec ==
    /\ Spec
    /\ WF_vars(ServeList)
    /\ WF_vars(ListSettled)
    /\ WF_vars(\E i \in DOMAIN inflight : Serve(i))
    /\ WF_vars(\E i \in DOMAIN inflight : addTodoSettled(i))
    /\ WF_vars(\E i \in DOMAIN inflight : removeTodoSettled(i))
    /\ WF_vars(\E i \in DOMAIN inflight : editTodoSettled(i))

\* No request is outstanding, nothing is pending but the sentinel, and there
\* is no placeholder
Quiescent ==
    /\ listReq.stage \in {"loaded", "failed"}
    /\ inflight = <<>>
    /\ isLoadingTodo = <<0>>
    /\ tempTodo = <<>>

\* C20: the sentinel 0 is in the pending list in every reachable state (Remove
\* and Edit are issued for ids of records of the collection only); with no
\* request in flight the pending list is <<0>> and there is no placeholder;
\* and when every request gets its response, every state leads to a
\* quiescent one.
C20_Quiescence ==
    /\ [](0 \in Pending /\ 0 \notin Ids(todos))
    /\ [](inflight = <<>> => (isLoadingTodo = <<0>> /\ tempTodo = <<>>))
    /\ (~Quiescent) ~> Quiescent

\* C20, the case reached: the user has issued requests, the last of their
\* responses, a rejection, has just settled, and the state is quiescent.
C20_Witness ==
    /\ Quiescent
    /\ intents = MaxIntents
    /\ last.op \in {"add", "remove", "edit"}
    /\ ~last.ok

====
